---- MODULE Spec2Model ----
(***************************************************************************)
(* A model of server.py: the conversation window (trim_conversation,       *)
(* prepare_api_messages), the chunked transcript writer                    *)
(* (save_conversation), the streaming client (call_deepseek_api_stream)    *)
(* and the per-turn generator respond.                                     *)
(*                                                                         *)
(* A Python str is modelled as a run-length encoded character sequence:    *)
(* a sequence of runs [c |-> character, n |-> repetitions >= 1] in which   *)
(* adjacent runs carry different characters, so that equal strings have    *)
(* equal representations and strings of thousands of characters stay       *)
(* small. A character is named by a one-character TLA+ string, or by its   *)
(* code point ("U+4F60") when it is outside ASCII.                         *)
(***************************************************************************)
EXTENDS Integers, Sequences, FiniteSets, TLC

VARIABLES
  \* One application of a function on its own: the arguments, the result.
  call, ret,
  \* The chat component's value.
  chatbot,
  \* respond: its position, how many calls were made, its arguments and
  \* locals, the values it yielded, and the exception its handler caught.
  pc, turn, message, chat_history, trimmed_history, bot_message, emitted, error,
  \* call_deepseek_api_stream: the response's status (0 when there is none),
  \* whether the sentinel line was read, and the fragments yielded, each with
  \* whether it is the content of a line read after the sentinel.
  status, sawDone, fragments,
  \* What the current call of respond did to the world outside, which the
  \* program never reads back: the files written into each data directory
  \* and the requests posted.
  training_written, conversations_written, posted

fnVars == <<call, ret>>

sessionVars ==
  <<chatbot, pc, turn, message, chat_history, trimmed_history,
    bot_message, emitted, error, status, sawDone, fragments,
    training_written, conversations_written, posted>>

vars == <<fnVars, sessionVars>>

(* ------------------------------ str ----------------------------------- *)

\* The string made of n copies of the character c.
Str(c, n) == IF n <= 0 THEN <<>> ELSE <<[c |-> c, n |-> n]>>

\* Python's s + t.
Cat(s, t) ==
  IF s = <<>> THEN t
  ELSE IF t = <<>> THEN s
  ELSE IF s[Len(s)].c = t[1].c
       THEN SubSeq(s, 1, Len(s) - 1)
              \o <<[c |-> t[1].c, n |-> s[Len(s)].n + t[1].n]>>
              \o Tail(t)
       ELSE s \o t

\* The strings parts[lo..hi] concatenated, halving the range.
RECURSIVE CatRange(_, _, _)
CatRange(parts, lo, hi) ==
  IF lo > hi THEN <<>>
  ELSE IF lo = hi THEN parts[lo]
  ELSE LET mid == (lo + hi) \div 2
       IN Cat(CatRange(parts, lo, mid), CatRange(parts, mid + 1, hi))

\* ''.join(parts)
CatAll(parts) == CatRange(parts, 1, Len(parts))

\* The string spelled by a sequence of characters.
Lit(chars) == CatAll([i \in 1..Len(chars) |-> Str(chars[i], 1)])

\* Python's len(s).
RECURSIVE LenRange(_, _, _)
LenRange(s, lo, hi) ==
  IF lo > hi THEN 0
  ELSE IF lo = hi THEN s[lo].n
  ELSE LET mid == (lo + hi) \div 2
       IN LenRange(s, lo, mid) + LenRange(s, mid + 1, hi)

StrLen(s) == LenRange(s, 1, Len(s))

\* s[k:] for k >= 0.
RECURSIVE DropChars(_, _)
DropChars(s, k) ==
  IF s = <<>> \/ k <= 0 THEN s
  ELSE IF s[1].n <= k THEN DropChars(Tail(s), k - s[1].n)
  ELSE <<[c |-> s[1].c, n |-> s[1].n - k]>> \o Tail(s)

\* s[:k] for k >= 0.
RECURSIVE TakeChars(_, _)
TakeChars(s, k) ==
  IF s = <<>> \/ k <= 0 THEN <<>>
  ELSE IF s[1].n <= k THEN <<s[1]>> \o TakeChars(Tail(s), k - s[1].n)
  ELSE <<[c |-> s[1].c, n |-> k]>>

\* Python's s[a:b] for 0 <= a <= b: out-of-range bounds are clamped.
Slice(s, a, b) == TakeChars(DropChars(s, a), b - a)

\* The characters str.strip() removes (those of the model's alphabet).
Whitespace == {" ", "\n"}

RECURSIVE LStrip(_)
LStrip(s) ==
  IF s # <<>> /\ s[1].c \in Whitespace THEN LStrip(Tail(s)) ELSE s

RECURSIVE RStrip(_)
RStrip(s) ==
  IF s # <<>> /\ s[Len(s)].c \in Whitespace
  THEN RStrip(SubSeq(s, 1, Len(s) - 1))
  ELSE s

\* Python's s.strip().
Strip(s) == RStrip(LStrip(s))

\* Python's str(n) for an integer n >= 0.
Digit(d) == <<"0", "1", "2", "3", "4", "5", "6", "7", "8", "9">>[d + 1]

RECURSIVE IntStr(_)
IntStr(n) ==
  IF n < 10 THEN Str(Digit(n), 1)
  ELSE Cat(IntStr(n \div 10), Str(Digit(n % 10), 1))

(* --------------------------- constants -------------------------------- *)

MAX_TOKENS == 4000
MAX_HISTORY_ITEMS == 20
MAX_CONVERSATION_LENGTH == 10000

(* --------------------------- tokenizer -------------------------------- *)

\* count_tokens: the cl100k_base encoder lives outside the repository; the
\* model charges one token per character, a cost that is 0 for the empty
\* string, deterministic and monotonic in the text's length.
count_tokens(text) == StrLen(text)

(* ------------------------ trim_conversation --------------------------- *)

\* The loop of trim_conversation: item i is the next one of
\* reversed(conversation); the loop breaks at the first item that overflows.
RECURSIVE TrimLoop(_, _, _, _, _)
TrimLoop(conversation, i, total_tokens, trimmed, max_tokens) ==
  IF i = 0 THEN trimmed
  ELSE LET item == conversation[i]
           item_tokens == count_tokens(item[1]) + count_tokens(item[2])
       IN IF total_tokens + item_tokens > max_tokens
          THEN trimmed
          ELSE TrimLoop(conversation, i - 1, total_tokens + item_tokens,
                        <<item>> \o trimmed, max_tokens)

\* The same loop skipping an overflowing item instead of stopping at it.
RECURSIVE TrimLoopSkipping(_, _, _, _, _)
TrimLoopSkipping(conversation, i, total_tokens, trimmed, max_tokens) ==
  IF i = 0 THEN trimmed
  ELSE LET item == conversation[i]
           item_tokens == count_tokens(item[1]) + count_tokens(item[2])
       IN IF total_tokens + item_tokens > max_tokens
          THEN TrimLoopSkipping(conversation, i - 1, total_tokens, trimmed,
                                max_tokens)
          ELSE TrimLoopSkipping(conversation, i - 1,
                                total_tokens + item_tokens,
                                <<item>> \o trimmed, max_tokens)

trim_conversation_skipping(conversation, max_tokens) ==
  TrimLoopSkipping(conversation, Len(conversation), 0, <<>>, max_tokens)

trim_conversation(conversation, max_tokens) ==
  TrimLoop(conversation, Len(conversation), 0, <<>>, max_tokens)

(* ------------------- trim_conversation on its own --------------------- *)

MaxTrimTurns == 3

TrimUserTexts == {<<>>, Str("a", 1), Str("a", 1000)}
TrimBotTexts == {<<>>, Str("b", 1000)}
TrimTurns == {<<u, b>> : u \in TrimUserTexts, b \in TrimBotTexts}
TrimBudgets == {0, 1, 1000, 2000, 2001, 3000}

SeqsUpTo(S, n) == UNION {[1..k -> S] : k \in 0..n}

NoCall == [fn |-> "none"]
NoRet == [done |-> FALSE]

\* respond before its first call: no turn made, nothing yielded, written or
\* posted.
SessionStart ==
  /\ pc = "idle"
  /\ turn = 0
  /\ message = <<>>
  /\ chat_history = <<>>
  /\ trimmed_history = <<>>
  /\ bot_message = <<>>
  /\ emitted = <<>>
  /\ error = "none"
  /\ status = 0
  /\ sawDone = FALSE
  /\ fragments = <<>>
  /\ training_written = <<>>
  /\ conversations_written = <<>>
  /\ posted = <<>>

\* The session as it is when the interface is built: an empty chat.
SessionInit ==
  /\ SessionStart
  /\ chatbot = <<>>

InitTrim ==
  /\ SessionInit
  /\ \E c \in SeqsUpTo(TrimTurns, MaxTrimTurns), b \in TrimBudgets :
       call = [fn |-> "trim_conversation", conversation |-> c, max_tokens |-> b]
  /\ ret = NoRet

ApplyTrim ==
  /\ call.fn = "trim_conversation"
  /\ ~ret.done
  /\ ret' = [done |-> TRUE,
             val |-> trim_conversation(call.conversation, call.max_tokens)]
  /\ UNCHANGED <<call, sessionVars>>

NextTrim == ApplyTrim

SpecTrim == InitTrim /\ [][NextTrim]_vars

\* The summed per-turn cost of a conversation, turn by turn.
RECURSIVE TurnsCost(_)
TurnsCost(c) ==
  IF c = <<>> THEN 0
  ELSE StrLen(c[1][1]) + StrLen(c[1][2]) + TurnsCost(Tail(c))

\* The last k turns of c.
LastTurns(c, k) == SubSeq(c, Len(c) - k + 1, Len(c))

\* C1: trim_conversation(C, B) is a contiguous suffix of C, in order, of
\* total cost at most B, and no longer suffix of C has total cost at most B.
C1_TrimLongestSuffix ==
  (call.fn = "trim_conversation" /\ ret.done) =>
    LET c == call.conversation
        k == Len(ret.val)
    IN /\ k <= Len(c)
       /\ ret.val = LastTurns(c, k)
       /\ TurnsCost(ret.val) <= call.max_tokens
       /\ \A j \in 0..Len(c) :
            TurnsCost(LastTurns(c, j)) <= call.max_tokens => j <= k

\* A three-turn conversation trimmed to its last two turns: the oldest turn
\* is dropped although it would fit the budget on its own.
C1_Witness ==
  /\ call.fn = "trim_conversation" /\ ret.done
  /\ Len(call.conversation) = 3
  /\ Len(ret.val) = 2
  /\ TurnsCost(<<call.conversation[1]>>) <= call.max_tokens
  /\ TurnsCost(<<call.conversation[1]>>) > 0

(* ---------------------- prepare_api_messages ------------------------- *)

\* sep.join(items)
Join(sep, items) ==
  IF items = <<>> THEN <<>>
  ELSE CatAll([i \in 1..(2 * Len(items) - 1) |->
                 IF i % 2 = 1 THEN items[(i + 1) \div 2] ELSE sep])

\* The continuation lines of the triple-quoted prompt: a newline and the
\* eight blanks of the source's indentation.
PromptIndent == Cat(Str("\n", 1), Str(" ", 8))

\* The f-string of the system prompt.
SystemPromptContent(profile) ==
  CatAll(<<Lit(<<"U+4F60", "U+6B63", "U+5728", "U+4E0E">>),
           profile.name,
           Lit(<<"U+5BF9", "U+8BDD", ":">>),
           PromptIndent,
           Lit(<<"U+5E74", "U+9F84", ":", " ">>),
           IntStr(profile.age),
           PromptIndent,
           Lit(<<"U+804C", "U+4E1A", ":", " ">>),
           profile.profession,
           PromptIndent,
           Lit(<<"U+5174", "U+8DA3", ":", " ">>),
           Join(Lit(<<",", " ">>), profile.interests)>>)

Message(role, content) == [role |-> role, content |-> content]

\* conversation[-n:]
LastItems(conversation, n) ==
  IF Len(conversation) <= n THEN conversation
  ELSE SubSeq(conversation, Len(conversation) - n + 1, Len(conversation))

\* The history loop of prepare_api_messages over recent, from item i on;
\* it returns the pair <<messages, tokens_used>> the loop ends with.
RECURSIVE HistoryLoop(_, _, _, _)
HistoryLoop(recent, i, messages, tokens_used) ==
  IF i > Len(recent) THEN <<messages, tokens_used>>
  ELSE LET user_msg == recent[i][1]
           bot_msg == recent[i][2]
           new_tokens == count_tokens(user_msg) + count_tokens(bot_msg)
       IN IF tokens_used + new_tokens > MAX_TOKENS
          THEN <<messages, tokens_used>>
          ELSE HistoryLoop(recent, i + 1,
                           messages \o <<Message("user", user_msg),
                                         Message("assistant", bot_msg)>>,
                           tokens_used + new_tokens)

prepare_api_messages(conversation, profile, new_message) ==
  LET system_prompt == Message("system", SystemPromptContent(profile))
      loop == HistoryLoop(LastItems(conversation, MAX_HISTORY_ITEMS), 1,
                          <<system_prompt>>,
                          count_tokens(system_prompt.content))
      messages == loop[1]
      tokens_used == loop[2]
  IN IF count_tokens(new_message) + tokens_used < MAX_TOKENS
     THEN Append(messages, Message("user", new_message))
     ELSE messages

(* ------------------------- save_conversation -------------------------- *)

\* t repeated n times.
Repeat(t, n) == CatAll([i \in 1..n |-> t])

\* json.dumps of one run of characters inside a string: the quote, the
\* backslash and the newline are escaped, everything else is kept
\* (ensure_ascii=False).
EscapeRun(r) ==
  IF r.c = "\"" THEN Repeat(Lit(<<"\\", "\"">>), r.n)
  ELSE IF r.c = "\\" THEN Str("\\", 2 * r.n)
  ELSE IF r.c = "\n" THEN Repeat(Lit(<<"\\", "n">>), r.n)
  ELSE <<r>>

Escape(s) == CatAll([i \in 1..Len(s) |-> EscapeRun(s[i])])

\* json.dumps of a str.
JsonString(s) == CatAll(<<Str("\"", 1), Escape(s), Str("\"", 1)>>)

\* json.dumps of one turn, a pair of strings.
JsonTurn(item) ==
  CatAll(<<Str("[", 1), JsonString(item[1]), Lit(<<",", " ">>),
           JsonString(item[2]), Str("]", 1)>>)

\* json.dumps(conversation, ensure_ascii=False)
json_dumps(conversation) ==
  CatAll(<<Str("[", 1),
           Join(Lit(<<",", " ">>),
                [i \in 1..Len(conversation) |-> JsonTurn(conversation[i])]),
           Str("]", 1)>>)

\* A transcript file's name: part = 0 is the unsplit
\* conversation_<timestamp>.json, part = k > 0 is ..._part<k>.json.
ConversationFile(timestamp, part) ==
  [dir |-> "data/conversations", timestamp |-> timestamp, part |-> part]

\* The number of part files save_conversation writes for a string of
\* length n that exceeds the threshold.
NumParts(n) == n \div MAX_CONVERSATION_LENGTH + 1

\* The slice written as part i + 1.
PartSliceShort(conversation_str, i) ==
  Slice(conversation_str, i * MAX_CONVERSATION_LENGTH,
        (i + 1) * MAX_CONVERSATION_LENGTH - 1)

PartSlice(conversation_str, i) ==
  Slice(conversation_str, i * MAX_CONVERSATION_LENGTH,
        (i + 1) * MAX_CONVERSATION_LENGTH)

\* The writes of save_conversation, in the order it makes them: a sequence
\* of [name, content].
save_conversation(conversation, timestamp) ==
  LET conversation_str == json_dumps(conversation)
  IN IF StrLen(conversation_str) > MAX_CONVERSATION_LENGTH
     THEN [i \in 1..NumParts(StrLen(conversation_str)) |->
             [name |-> ConversationFile(timestamp, i),
              content |-> PartSlice(conversation_str, i - 1)]]
     ELSE <<[name |-> ConversationFile(timestamp, 0),
             content |-> conversation_str]>>

(* ------------------------------ profile ------------------------------- *)

\* The profile load_profile writes and returns when profile.json is missing.
DefaultProfile ==
  [name |-> Lit(<<"U+7528", "U+6237">>),
   age |-> 20,
   profession |-> Lit(<<"U+672A", "U+8BBE", "U+7F6E">>),
   interests |-> <<Lit(<<"U+672A", "U+8BBE", "U+7F6E">>)>>]

(* ----------------- prepare_api_messages on its own -------------------- *)

MaxPrepTurns == 3

\* Profiles a profile.json can hold: the default one, one with two
\* interests, and one whose profession is a text of 4000 characters.
PrepProfiles ==
  {DefaultProfile,
   [name |-> Str("n", 1), age |-> 7, profession |-> Str("p", 1),
    interests |-> <<Str("x", 1), Str("y", 2)>>],
   [name |-> Str("n", 1), age |-> 105, profession |-> Str("p", 4000),
    interests |-> <<>>]}

PrepTurns == {<<Str("a", 1), Str("b", 1)>>, <<Str("a", 1000), Str("b", 500)>>}

\* Short conversations of every shape, and long ones of small turns around
\* the MAX_HISTORY_ITEMS cap, their first turn marked.
PrepConversations ==
  SeqsUpTo(PrepTurns, MaxPrepTurns)
    \cup {[i \in 1..k |-> IF i = 1 THEN <<Str("c", 1), Str("b", 1)>>
                          ELSE <<Str("a", 1), Str("b", 1)>>] :
            k \in {MAX_HISTORY_ITEMS, MAX_HISTORY_ITEMS + 1}}

PrepNewMessages == {Str("a", 1), Str("a", 2000), Str("a", 3900), Str("a", 4000)}

InitPrepare ==
  /\ SessionInit
  /\ \E c \in PrepConversations, p \in PrepProfiles, m \in PrepNewMessages :
       call = [fn |-> "prepare_api_messages", conversation |-> c,
               profile |-> p, new_message |-> m]
  /\ ret = NoRet

ApplyPrepare ==
  /\ call.fn = "prepare_api_messages"
  /\ ~ret.done
  /\ ret' = [done |-> TRUE,
             val |-> prepare_api_messages(call.conversation, call.profile,
                                          call.new_message)]
  /\ UNCHANGED <<call, sessionVars>>

NextPrepare == ApplyPrepare

SpecPrepare == InitPrepare /\ [][NextPrepare]_vars

\* The summed length of the contents of a list of messages.
RECURSIVE ContentsCost(_)
ContentsCost(messages) ==
  IF messages = <<>> THEN 0
  ELSE StrLen(messages[1].content) + ContentsCost(Tail(messages))

\* C2: the list prepare_api_messages returns starts with a system message,
\* holds exactly one system message, and the token costs of its contents
\* sum to at most MAX_TOKENS.
C2_OneSystemWithinCeiling ==
  (call.fn = "prepare_api_messages" /\ ret.done) =>
    /\ ret.val # <<>>
    /\ ret.val[1].role = "system"
    /\ Cardinality({i \in 1..Len(ret.val) : ret.val[i].role = "system"}) = 1
    /\ ContentsCost(ret.val) <= MAX_TOKENS

(* -------------------- save_conversation on its own -------------------- *)

MaxSaveTurns == 1

SaveUserTexts ==
  {Str("a", n) : n \in {0, 1, 9989, 9990, 9991, 14990, 19990}}
    \cup {Lit(<<"\"", "a", "\n", "\\">>)}
SaveBotTexts == {Str("b", n) : n \in {0, 1, 5000, 10000, 10001}}
SaveTurns == {<<u, b>> : u \in SaveUserTexts, b \in SaveBotTexts}
SaveTimestamps == {0, 1}

InitSave ==
  /\ SessionInit
  /\ \E c \in SeqsUpTo(SaveTurns, MaxSaveTurns), t \in SaveTimestamps :
       call = [fn |-> "save_conversation", conversation |-> c, timestamp |-> t]
  /\ ret = NoRet

ApplySave ==
  /\ call.fn = "save_conversation"
  /\ ~ret.done
  /\ ret' = [done |-> TRUE,
             val |-> save_conversation(call.conversation, call.timestamp)]
  /\ UNCHANGED <<call, sessionVars>>

NextSave == ApplySave

SpecSave == InitSave /\ [][NextSave]_vars

\* The content of the file written with part number p.
PartFile(writes, p) ==
  (CHOOSE i \in 1..Len(writes) : writes[i].name.part = p)

\* The contents of parts p..n concatenated in ascending part number.
RECURSIVE Reassemble(_, _, _)
Reassemble(writes, p, n) ==
  IF p > n THEN <<>>
  ELSE Cat(writes[PartFile(writes, p)].content, Reassemble(writes, p + 1, n))

\* The files of one save are split when their names carry part numbers.
IsSplit(writes) == \A i \in 1..Len(writes) : writes[i].name.part > 0

\* C3: the files save_conversation writes reconstruct the serialized
\* conversation S exactly: the part files, numbered 1..n, concatenated in
\* ascending part number give S; an unsplit file holds S.
C3_RoundTrip ==
  (call.fn = "save_conversation" /\ ret.done) =>
    LET S == json_dumps(call.conversation)
        writes == ret.val
    IN /\ writes # <<>>
       /\ IF IsSplit(writes)
          THEN /\ {writes[i].name.part : i \in 1..Len(writes)} = 1..Len(writes)
               /\ Reassemble(writes, 1, Len(writes)) = S
          ELSE /\ Len(writes) = 1
               /\ writes[1].name.part = 0
               /\ writes[1].content = S

\* A conversation with escaped characters or of 25,000 serialized characters
\* written as three parts of 10000, 10000 and 5000 characters.
C3_Witness ==
  /\ call.fn = "save_conversation" /\ ret.done
  /\ StrLen(json_dumps(call.conversation)) = 25000
  /\ Len(ret.val) = 3
  /\ IsSplit(ret.val)
  /\ StrLen(ret.val[1].content) = 10000
  /\ StrLen(ret.val[2].content) = 10000
  /\ StrLen(ret.val[3].content) = 5000

\* C4: with L the serialized length and T = MAX_CONVERSATION_LENGTH, L <= T
\* gives exactly one unsplit file, and L > T gives exactly ceil(L/T) part
\* files numbered 1..n, all but the last of T characters, the last of
\* L - (n-1)*T characters, between 1 and T; no part file is empty.
C4_PartCountAndSizes ==
  (call.fn = "save_conversation" /\ ret.done) =>
    LET L == StrLen(json_dumps(call.conversation))
        T == MAX_CONVERSATION_LENGTH
        writes == ret.val
        n == (L + T - 1) \div T
    IN IF L <= T
       THEN Len(writes) = 1 /\ writes[1].name.part = 0
       ELSE /\ Len(writes) = n
            /\ \A i \in 1..Len(writes) :
                 /\ writes[i].name.part = i
                 /\ StrLen(writes[i].content) # 0
                 /\ i < Len(writes) => StrLen(writes[i].content) = T
            /\ StrLen(writes[Len(writes)].content) = L - (n - 1) * T
            /\ L - (n - 1) * T \in 1..T

(* ---------------------- call_deepseek_api_stream --------------------- *)

\* repr() of a run of characters inside a str: the backslash and the
\* newline are escaped. No string of the model holds a single quote, so
\* repr() always delimits with single quotes and leaves double quotes alone.
ReprRun(r) ==
  IF r.c = "\\" THEN Str("\\", 2 * r.n)
  ELSE IF r.c = "\n" THEN Repeat(Lit(<<"\\", "n">>), r.n)
  ELSE <<r>>

\* repr(s) for a str s.
Repr(s) ==
  CatAll(<<Str("'", 1), CatAll([i \in 1..Len(s) |-> ReprRun(s[i])]),
           Str("'", 1)>>)

RoleName(role) ==
  IF role = "system" THEN Lit(<<"s", "y", "s", "t", "e", "m">>)
  ELSE IF role = "user" THEN Lit(<<"u", "s", "e", "r">>)
  ELSE Lit(<<"a", "s", "s", "i", "s", "t", "a", "n", "t">>)

\* repr of one message dict: {'role': '...', 'content': '...'}
ReprMessage(m) ==
  CatAll(<<Lit(<<"{", "'", "r", "o", "l", "e", "'", ":", " ">>),
           Repr(RoleName(m.role)),
           Lit(<<",", " ", "'", "c", "o", "n", "t", "e", "n", "t", "'", ":", " ">>),
           Repr(m.content),
           Str("}", 1)>>)

\* str(messages)
StrMessages(messages) ==
  CatAll(<<Str("[", 1),
           Join(Lit(<<",", " ">>),
                [i \in 1..Len(messages) |-> ReprMessage(messages[i])]),
           Str("]", 1)>>)

Min(a, b) == IF a <= b THEN a ELSE b

\* The JSON body posted to the endpoint.
RequestData(messages) ==
  [model |-> "deepseek-chat",
   messages |-> messages,
   stream |-> TRUE,
   max_tokens |-> Min(2000, MAX_TOKENS - count_tokens(StrMessages(messages)))]

\* str(e) of the exceptions the model raises.
ExceptionText(e) ==
  IF e = "ConnectionError" THEN Lit(<<"r", "e", "f", "u", "s", "e", "d">>)
  ELSE IF e = "ChunkedEncodingError" THEN Lit(<<"b", "r", "o", "k", "e", "n">>)
  ELSE IF e = "TypeError" THEN Lit(<<"t", "y", "p", "e">>)
  ELSE Lit(<<"d", "i", "s", "k">>)

\* The same fragment with the status code left out.
ApiErrorFragmentBare(status_code) ==
  Lit(<<"[", "A", "P", "I", " ", "U+9519", "U+8BEF", "]", " ",
        "U+72B6", "U+6001", "U+7801", ":">>)

\* f"[API 错误] 状态码: {response.status_code}"
ApiErrorFragment(status_code) ==
  Cat(Lit(<<"[", "A", "P", "I", " ", "U+9519", "U+8BEF", "]", " ",
            "U+72B6", "U+6001", "U+7801", ":", " ">>),
      IntStr(status_code))

\* f"[连接错误] {str(e)}"
ConnectionErrorFragment(e) ==
  Cat(Lit(<<"[", "U+8FDE", "U+63A5", "U+9519", "U+8BEF", "]", " ">>),
      ExceptionText(e))

\* A line of the response is a sequence of lexemes: the "data:" marker,
\* blanks, and one payload. The payloads the model's server can send:
DoneText == "[DONE]"
ContentB == "{\"choices\":[{\"delta\":{\"content\":\"b\"}}]}"
ContentEmpty == "{\"choices\":[{\"delta\":{\"content\":\"\"}}]}"
ContentNumber == "{\"choices\":[{\"delta\":{\"content\":7}}]}"
NoContent == "{\"choices\":[{\"delta\":{}}]}"
NoDelta == "{\"choices\":[{}]}"
NoChoice == "{\"choices\":[]}"
NoChoices == "{\"id\":\"x\"}"
NotAnObject == "123"
Malformed == "{\"choices\":"

JsonStr(text) == [kind |-> "string", value |-> text]
JsonNum(n) == [kind |-> "number", value |-> n]
JsonObj(dict) == [kind |-> "object", value |-> dict]
JSONDecodeError == [kind |-> "JSONDecodeError"]

\* json.loads on the payloads above; anything else does not parse.
json_loads(json_data) ==
  IF Len(json_data) # 1 THEN JSONDecodeError
  ELSE LET t == json_data[1]
           chunk(content) == JsonObj([choices |-> <<[delta |-> [content |-> content]]>>])
       IN IF t = ContentB THEN chunk(JsonStr(Str("b", 1)))
          ELSE IF t = ContentEmpty THEN chunk(JsonStr(<<>>))
          ELSE IF t = ContentNumber THEN chunk(JsonNum(7))
          ELSE IF t = NoContent THEN JsonObj([choices |-> <<[delta |-> <<>>]>>])
          ELSE IF t = NoDelta THEN JsonObj([choices |-> << <<>> >>])
          ELSE IF t = NoChoice THEN JsonObj([choices |-> <<>>])
          ELSE IF t = NoChoices THEN JsonObj([id |-> JsonStr(Str("x", 1))])
          ELSE IF t = NotAnObject THEN JsonNum(123)
          ELSE JSONDecodeError

\* decoded_line.startswith("data:")
StartsWithData(decoded_line) ==
  decoded_line # <<>> /\ decoded_line[1] = "data:"

\* str.strip() on lexemes.
RECURSIVE StripLexemes(_)
StripLexemes(t) ==
  IF t # <<>> /\ t[1] = " " THEN StripLexemes(Tail(t))
  ELSE IF t # <<>> /\ t[Len(t)] = " " THEN StripLexemes(SubSeq(t, 1, Len(t) - 1))
  ELSE t

\* decoded_line[5:].strip()
JsonData(decoded_line) == StripLexemes(Tail(decoded_line))

\* The line is the sentinel data line.
IsSentinel(line) == StartsWithData(line) /\ JsonData(line) = <<DoneText>>

\* Python's truth value of a parsed content.
Truthy(content) ==
  IF content.kind = "string" THEN content.value # <<>> ELSE content.value # 0

Skip == [kind |-> "skip"]

\* What the body of the iter_lines loop does with one line: skip it, yield
\* a content, or raise (caught by the function's own handler).
LineResult(line) ==
  IF line = <<>> THEN Skip
  ELSE IF ~StartsWithData(line) THEN Skip
  ELSE LET json_data == JsonData(line)
       IN IF json_data = <<DoneText>> THEN Skip
          ELSE LET chunk == json_loads(json_data)
               IN IF chunk.kind = "JSONDecodeError" THEN Skip
                  ELSE IF chunk.kind # "object"
                       THEN [kind |-> "raise", e |-> "TypeError"]
                  ELSE IF "choices" \in DOMAIN chunk.value
                          /\ chunk.value.choices # <<>>
                       THEN LET choice == chunk.value.choices[1]
                                delta == IF "delta" \in DOMAIN choice
                                         THEN choice.delta ELSE <<>>
                                content == IF "content" \in DOMAIN delta
                                           THEN delta.content ELSE JsonStr(<<>>)
                            IN IF Truthy(content)
                               THEN [kind |-> "yield", content |-> content]
                               ELSE Skip
                       ELSE Skip

(* ------------------------------ respond ------------------------------- *)

MaxTurns == 1
MaxFragments == 2

\* What the user can type, the answers of the endpoint (0: the post raises
\* before any status arrives), the lines a 200 response can carry, and the
\* readings of datetime.now().
SessionMessages == {<<>>, Lit(<<" ", "\n">>), Str("a", 1)}
Answers == {0, 200, 204, 500}
SessionLines ==
  {<<>>, <<":", " ", "ping">>, <<"data:">>,
   <<"data:", " ", DoneText>>, <<"data:", DoneText, " ">>,
   <<"data:", " ", ContentB>>, <<"data:", ContentB>>,
   <<"data:", " ", ContentEmpty>>, <<"data:", " ", ContentNumber>>,
   <<"data:", " ", NoContent>>, <<"data:", " ", NoDelta>>,
   <<"data:", " ", NoChoice>>, <<"data:", " ", NoChoices>>,
   <<"data:", " ", NotAnObject>>, <<"data:", " ", Malformed>>}
Timestamps == {0, 1}

\* The chat component's value when respond is first called in a run: empty,
\* or a conversation earlier turns left there (short turns, and turns of
\* 1201 tokens, two of which exceed the trimming budget).
ShortTurn == <<Str("a", 1), Str("b", 1)>>
LongTurn == <<Str("a", 1200), Str("b", 1)>>
Histories ==
  {<<>>, <<ShortTurn>>, <<LongTurn, ShortTurn>>, <<LongTurn, LongTurn>>,
   <<ShortTurn, LongTurn, LongTurn>>}

\* The profile the session was built with.
profile == DefaultProfile

\* not message, without the strip.
IsEmptyMessage(m) == m = <<>>

\* not message.strip()
IsBlank(m) == Strip(m) = <<>>

\* bot_message = chunk in place of bot_message += chunk.
Replace(bot, chunk) == chunk

\* bot_message += chunk
Accumulate(bot, chunk) == Cat(bot, chunk)

\* [(message, bot_message)] alone, without the history before it.
TurnAlone(history, m, bot) == << <<m, bot>> >>

\* history + [(message, bot_message)]
WithTurn(history, m, bot) == history \o << <<m, bot>> >>

\* f"发生错误: {str(e)}"
RespondErrorText(e) ==
  Cat(Lit(<<"U+53D1", "U+751F", "U+9519", "U+8BEF", ":", " ">>),
      ExceptionText(e))

\* The write of save_training_data at time ts, or none when it fails (the
\* failure is printed and swallowed).
save_training_data(m, p, ts, ok) ==
  IF ok
  THEN <<[name |-> [dir |-> "data/training_data", timestamp |-> ts, part |-> 0],
          content |-> [timestamp |-> ts, message |-> m, profile |-> p]]>>
  ELSE <<>>

\* A yield of respond: the value is recorded and shown by the chat component.
Emit(value) ==
  /\ emitted' = Append(emitted, value)
  /\ chatbot' = value

\* A call of respond with a blank message: the history is yielded as it is
\* and the generator returns.
SubmitBlank ==
  \E m \in SessionMessages :
    /\ pc \in {"idle", "done"}
    /\ turn < MaxTurns
    /\ IsBlank(m)
    /\ turn' = turn + 1
    /\ message' = m
    /\ chat_history' = chatbot
    /\ emitted' = <<chatbot>>
    /\ chatbot' = chatbot
    /\ pc' = "done"
    /\ trimmed_history' = <<>>
    /\ bot_message' = <<>>
    /\ fragments' = <<>>
    /\ error' = "none"
    /\ status' = 0
    /\ sawDone' = FALSE
    /\ training_written' = <<>>
    /\ conversations_written' = <<>>
    /\ posted' = <<>>
    /\ UNCHANGED fnVars

\* A call of respond with a message, up to the first point where it waits
\* on the network: the snapshot is saved, the history trimmed, the request
\* posted. The post raises, or answers with a status; a status other than
\* 200 and a raised exception each yield one fragment, which respond emits.
Submit ==
  \E m \in SessionMessages, ts \in Timestamps, ok \in BOOLEAN,
     answer \in Answers :
    /\ pc \in {"idle", "done"}
    /\ turn < MaxTurns
    /\ ~IsBlank(m)
    /\ turn' = turn + 1
    /\ message' = m
    /\ chat_history' = chatbot
    /\ training_written' = save_training_data(m, profile, ts, ok)
    /\ conversations_written' = <<>>
    /\ \E trimmed \in {trim_conversation(chatbot, MAX_TOKENS \div 2)} :
         LET messages == prepare_api_messages(trimmed, profile, m)
             fragment == IF answer = 0
                         THEN ConnectionErrorFragment("ConnectionError")
                         ELSE ApiErrorFragment(answer)
         IN /\ trimmed_history' = trimmed
            /\ posted' = <<RequestData(messages)>>
            /\ status' = answer
            /\ IF answer = 200
               THEN /\ bot_message' = <<>>
                    /\ fragments' = <<>>
                    /\ emitted' = <<>>
                    /\ chatbot' = chatbot
                    /\ pc' = "streaming"
               ELSE /\ bot_message' = Accumulate(<<>>, fragment)
                    /\ fragments' = <<[text |-> fragment, afterDone |-> FALSE]>>
                    /\ emitted' =
                         <<WithTurn(trimmed, m, Accumulate(<<>>, fragment))>>
                    /\ chatbot' = WithTurn(trimmed, m, Accumulate(<<>>, fragment))
                    /\ pc' = "closing"
    /\ error' = "none"
    /\ sawDone' = FALSE
    /\ UNCHANGED fnVars

\* The except handler of respond: the error turn is yielded after the
\* history respond was called with, and the generator returns.
Fail(e) ==
  /\ error' = e
  /\ Emit(WithTurn(chat_history, message, RespondErrorText(e)))
  /\ pc' = "done"

\* One line of a 200 response is read and handled. A string content is
\* yielded as a fragment and respond emits the conversation so far; a
\* content that is no string is yielded too and fails respond's +=; an
\* exception inside the loop yields the connection-error fragment and ends
\* the stream.
RecvLine ==
  \E line \in SessionLines :
    /\ pc = "streaming"
    /\ Len(fragments) < MaxFragments
    /\ sawDone' = (sawDone \/ IsSentinel(line))
    /\ LET r == LineResult(line)
           fragment == IF r.kind = "raise" THEN ConnectionErrorFragment(r.e)
                       ELSE IF r.kind = "yield" /\ r.content.kind = "string"
                       THEN r.content.value
                       ELSE <<>>
       IN IF r.kind = "skip"
          THEN UNCHANGED <<bot_message, fragments, emitted, chatbot, pc, error>>
          ELSE IF r.kind = "yield" /\ r.content.kind # "string"
          THEN /\ Fail("TypeError")
               /\ UNCHANGED <<bot_message, fragments>>
          ELSE /\ bot_message' = Accumulate(bot_message, fragment)
               /\ fragments' =
                    Append(fragments,
                           [text |-> fragment,
                            afterDone |-> sawDone /\ r.kind = "yield"])
               /\ Emit(WithTurn(trimmed_history, message,
                                Accumulate(bot_message, fragment)))
               /\ pc' = IF r.kind = "raise" THEN "closing" ELSE "streaming"
               /\ UNCHANGED error
    /\ UNCHANGED <<turn, message, chat_history, trimmed_history, status,
                   training_written, conversations_written, posted, fnVars>>

\* Reading the response fails: the connection-error fragment is yielded and
\* the stream ends.
RecvFails ==
  /\ pc = "streaming"
  /\ Len(fragments) < MaxFragments
  /\ LET fragment == ConnectionErrorFragment("ChunkedEncodingError")
     IN /\ bot_message' = Accumulate(bot_message, fragment)
        /\ fragments' = Append(fragments,
                               [text |-> fragment, afterDone |-> FALSE])
        /\ Emit(WithTurn(trimmed_history, message,
                         Accumulate(bot_message, fragment)))
  /\ pc' = "closing"
  /\ UNCHANGED <<turn, message, chat_history, trimmed_history, error, status,
                 sawDone, training_written, conversations_written, posted,
                 fnVars>>

\* The stream is exhausted and the transcript is written: respond yields
\* the full conversation and returns.
Finish ==
  \E ts \in Timestamps :
    /\ pc \in {"streaming", "closing"}
    /\ LET full_conversation == WithTurn(trimmed_history, message, bot_message)
       IN /\ conversations_written' = save_conversation(full_conversation, ts)
          /\ Emit(full_conversation)
    /\ pc' = "done"
    /\ UNCHANGED <<turn, message, chat_history, trimmed_history, bot_message,
                   error, status, sawDone, fragments, training_written,
                   posted, fnVars>>

\* The stream is exhausted and a write of save_conversation raises after k
\* of its files were written: respond's handler yields the error turn.
FinishSaveFails ==
  \E ts \in Timestamps :
    /\ pc \in {"streaming", "closing"}
    /\ LET full_conversation == WithTurn(trimmed_history, message, bot_message)
           writes == save_conversation(full_conversation, ts)
       IN \E k \in 0..(Len(writes) - 1) :
            conversations_written' = SubSeq(writes, 1, k)
    /\ Fail("OSError")
    /\ UNCHANGED <<turn, message, chat_history, trimmed_history, bot_message,
                   status, sawDone, fragments, training_written, posted,
                   fnVars>>

Init ==
  /\ SessionStart
  /\ chatbot \in Histories
  /\ call = NoCall
  /\ ret = NoRet

Next ==
  \/ SubmitBlank
  \/ Submit
  \/ RecvLine
  \/ RecvFails
  \/ Finish
  \/ FinishSaveFails

Spec == Init /\ [][Next]_vars

(* ------------------------- claims on respond -------------------------- *)

\* Every character of m is whitespace (m may be empty).
AllWhitespace(m) == \A i \in 1..Len(m) : m[i].c \in Whitespace

\* The last value respond yielded.
LastEmitted == emitted[Len(emitted)]

\* The bot text of the last turn of a yielded conversation.
BotText(conversation) == conversation[Len(conversation)][2]

\* s is a prefix of t and shorter than t.
ProperPrefix(s, t) == StrLen(s) < StrLen(t) /\ TakeChars(t, StrLen(s)) = s

\* sub occurs in t.
Contains(t, sub) ==
  \E a \in 0..(StrLen(t) - StrLen(sub)) : Slice(t, a, a + StrLen(sub)) = sub

\* The first i fragments of the stream, concatenated.
FragmentsText(i) == CatAll([j \in 1..i |-> fragments[j].text])

\* C5: a call of respond with an empty or whitespace-only message yields
\* exactly one value, the chat history it was given, and returns; it writes
\* no training snapshot, writes no transcript and posts no request.
C5_BlankTurnNoEffect ==
  (turn > 0 /\ AllWhitespace(message)) =>
    /\ pc = "done"
    /\ emitted = <<chat_history>>
    /\ training_written = <<>>
    /\ conversations_written = <<>>
    /\ posted = <<>>

\* A whitespace-only message answered with a non-empty history.
C5_Witness ==
  /\ turn > 0
  /\ pc = "done"
  /\ message # <<>>
  /\ AllWhitespace(message)
  /\ chat_history # <<>>
  /\ emitted = <<chat_history>>

\* C6: when the endpoint answers with a status other than 200, the stream
\* yields exactly one fragment, which contains the status code, and ends:
\* no line of the body is read and nothing more is yielded.
C6_ErrorStatusOneFragment ==
  (turn > 0 /\ status \notin {0, 200}) =>
    /\ pc \in {"closing", "done"}
    /\ Len(fragments) = 1
    /\ Contains(fragments[1].text, IntStr(status))
    /\ ~sawDone
    /\ error # "TypeError"

\* A turn answered with status 500 that ended with the one fragment holding
\* "500".
C6_Witness ==
  /\ pc = "done"
  /\ status = 500
  /\ error = "none"
  /\ Len(fragments) = 1
  /\ Contains(fragments[1].text, Lit(<<"5", "0", "0">>))
  /\ BotText(LastEmitted) = fragments[1].text

\* C7: when save_conversation fails after the stream is exhausted, the last
\* value respond yields is still the conversation in memory, the trimmed
\* history followed by the turn with the message and the full reply.
C7_SaveFailureNotSurfaced ==
  (pc = "done" /\ error = "OSError") =>
    LastEmitted = trimmed_history \o << <<message, bot_message>> >>

\* C8: in a turn with a non-blank message that raises nothing, respond
\* yields once per fragment, in order, the prior turns followed by the turn
\* (message, f1 + ... + fi); the bot texts of these values form a strictly
\* growing chain of prefixes; and the value yielded last, once the stream is
\* exhausted, carries f1 + ... + fk.
C8_IncrementalDelivery ==
  (turn > 0 /\ ~AllWhitespace(message) /\ error = "none") =>
    LET k == Len(fragments)
    IN /\ Len(emitted) = IF pc = "done" THEN k + 1 ELSE k
       /\ \A i \in 1..k :
            emitted[i] = trimmed_history \o << <<message, FragmentsText(i)>> >>
       /\ k >= 1 => BotText(emitted[1]) # <<>>
       /\ \A i \in 1..(k - 1) :
            ProperPrefix(BotText(emitted[i]), BotText(emitted[i + 1]))
       /\ pc = "done" =>
            emitted[k + 1] = trimmed_history \o << <<message, FragmentsText(k)>> >>

\* A finished turn on a 200 response that delivered two fragments after a
\* non-empty history.
C8_Witness ==
  /\ pc = "done"
  /\ error = "none"
  /\ status = 200
  /\ trimmed_history # <<>>
  /\ Len(fragments) = 2
  /\ Len(emitted) = 3
  /\ BotText(emitted[1]) # BotText(emitted[2])

\* C9 as stated: the conversation yielded at the end of a turn is the
\* conversation at its start with exactly one turn appended (taken here for
\* the turns with a non-blank message only).
C9_AppendOnly ==
  (pc = "done" /\ ~AllWhitespace(message)) =>
    /\ Len(LastEmitted) = Len(chat_history) + 1
    /\ SubSeq(LastEmitted, 1, Len(chat_history)) = chat_history

\* C9 as amended: the conversation yielded at the end of a turn with a
\* non-blank message is a contiguous suffix of the conversation at its start,
\* in order and unchanged, followed by exactly one new turn that carries the
\* message; the suffix is the whole starting conversation whenever its total
\* token cost is at most MAX_TOKENS \div 2. A turn with a blank message yields
\* the starting conversation unchanged.
C9_SuffixPlusOneTurn ==
  (pc = "done") =>
    IF AllWhitespace(message)
    THEN LastEmitted = chat_history
    ELSE LET k == Len(LastEmitted) - 1
         IN /\ k \in 0..Len(chat_history)
            /\ SubSeq(LastEmitted, 1, k) = LastTurns(chat_history, k)
            /\ LastEmitted[k + 1][1] = message
            /\ TurnsCost(chat_history) <= MAX_TOKENS \div 2
                 => k = Len(chat_history)

\* A turn that started from three turns and ended with two: the two oldest
\* turns were dropped, the newest kept, one appended.
C9_Witness ==
  /\ pc = "done"
  /\ error = "none"
  /\ ~AllWhitespace(message)
  /\ Len(chat_history) = 3
  /\ Len(LastEmitted) = 2
  /\ LastEmitted[1] = chat_history[3]

\* C10: the sentinel data line ends the fragment sequence: no fragment is
\* the content of a data line read after the sentinel.
C10_SentinelTerminates ==
  \A i \in 1..Len(fragments) : ~fragments[i].afterDone

====
